---- MODULE Spec2Model ----
(***************************************************************************)
(* A model of client/dbclient_rs.cpp: the replica-set monitor              *)
(* (ReplicaSetMonitor), its process-wide registry (ReplicaSetMonitor::get) *)
(* and the routing client (DBClientReplicaSet).                            *)
(*                                                                         *)
(* Threads run the methods of the source step by step.  A step is one      *)
(* network call, one critical section of a scoped_lock, or one unlocked    *)
(* access to a field; a call pushes the label to return to on the          *)
(* thread's stack.  Node indices are 0-based as in the source: node k of   *)
(* the vector is element k+1 of the sequence.                              *)
(***************************************************************************)
EXTENDS Integers, Sequences, FiniteSets, TLC

\* ------------------------------------------------------------ universe
Hosts == {"A", "B", "C"}
Names == {"rs0", "rs1"}
Threads == {"t1", "t2"}
Creds == {"alice", "mallory"}

\* The longest seed list a caller passes to ReplicaSetMonitor::get.
MaxSeeds == 2

\* How many times the servers change (crash, recover, elect) in one run.
MaxEnv == 1

\* How many calls of ReplicaSetMonitor::get the callers make in one run.
MaxGets == 2

NoHost == ""
NoConn == [host |-> NoHost, failed |-> FALSE, authed |-> <<>>]

\* What the current user call of the client has done so far: the operations
\* it issued on its connections, whether it returned, and whether it
\* returned by an exception (slaveOk: the call is a query with SlaveOk set).
NoCall == [op |-> "", slaveOk |-> FALSE, cred |-> "", log |-> <<>>, done |-> FALSE,
           threw |-> FALSE, notified |-> NoHost, snap |-> <<>>]

Finish(call, threw) == [call EXCEPT !.done = TRUE, !.threw = threw]

VARIABLES
    rs,           \* the replica set's configuration: [hosts, passives]
    budget,       \* what is left of the run's bounds: [env, calls]
    primary,      \* the server that answers isMaster: true now, or NoHost
    down,         \* the servers that refuse connections and drop requests
    _sets,        \* ReplicaSetMonitor::_sets: name -> monitor (0: null pointer)
    _setsLock,    \* the thread holding ReplicaSetMonitor::_setsLock, or ""
    watcher,      \* replicaSetMonitorWatcher.getState(): "NotStarted" | "Running"
    mons,         \* the ReplicaSetMonitor objects: [_name, _nodes, _master]
    pc,           \* each thread's position
    stk,          \* each thread's stack of labels to return to
    loc,          \* each thread's arguments, locals and return values
    cl,           \* the DBClientReplicaSet of thread t1
    obs           \* what has been observed so far (sticky): races, lock slips,
                  \* a primary reported failed

vars == <<rs, budget, primary, down, _sets, _setsLock, watcher, mons, pc, stk, loc, cl, obs>>

SeqsUpTo(S, n) == UNION {[1..k -> S] : k \in 0..n}

Range(f) == {f[k] : k \in DOMAIN f}

Members == Range(rs.hosts) \cup Range(rs.passives)

SeedLists == SeqsUpTo(Members, MaxSeeds)

Node(h) == [addr |-> h, ok |-> TRUE]

NoLoc ==
    [this |-> 0, name |-> "", seeds |-> <<>>, i |-> 0, retry |-> 0,
     triedQuickCheck |-> FALSE, maybePrimary |-> NoHost, x |-> -1,
     c |-> NoHost, isMaster |-> FALSE, hl |-> <<>>, 
     server |-> NoHost, retB |-> FALSE, retH |-> NoHost,
     tries |-> 0, hint |-> NoHost]

\* ------------------------------------------------------------ helpers
Size(m) == Len(mons[m]._nodes)

At(m, k) == mons[m]._nodes[k + 1]

Min(S) == CHOOSE a \in S : \A b \in S : a <= b

_find(m, server) ==
    LET hit == {k \in 0..(Size(m) - 1) : At(m, k).addr = server}
    IN  IF hit = {} THEN -1 ELSE Min(hit)

\* The monitor is reachable by other threads once get() stored it in _sets.
Shared(m) == \E n \in Names : _sets[n] = m

Goto(t, label) == pc' = [pc EXCEPT ![t] = label]

Call(t, entry, back) ==
    /\ pc' = [pc EXCEPT ![t] = entry]
    /\ stk' = [stk EXCEPT ![t] = <<back>> \o @]

Return(t) ==
    /\ pc' = [pc EXCEPT ![t] = Head(stk[t])]
    /\ stk' = [stk EXCEPT ![t] = Tail(@)]

\* The locals of a thread whose method returns with locals r: back in the
\* caller of the whole operation only the monitor pointer is kept.
Leave(t, r) ==
    IF Head(stk[t]) = "idle" THEN [NoLoc EXCEPT !.this = r.this, !.name = r.name] ELSE r

\* ------------------------------------------------------------ servers
IsMasterReply(h) == [ismaster |-> (primary = h), primary |-> primary,
                     hosts |-> rs.hosts, passives |-> rs.passives]

MemberState(h) == IF h = primary THEN 1 ELSE IF h \in down THEN 8 ELSE 2

MemberHealth(h) == IF h \in down THEN 0 ELSE 1

StatusMembers ==
    LET all == rs.hosts \o rs.passives
    IN  [k \in 1..Len(all) |->
            [name |-> all[k], state |-> MemberState(all[k]), health |-> MemberHealth(all[k])]]

Spend(what) ==
    /\ budget[what] > 0
    /\ budget' = [budget EXCEPT ![what] = @ - 1]

Crash(h) ==
    /\ Spend("env")
    /\ h \notin down
    /\ down' = down \cup {h}
    /\ primary' = IF primary = h THEN NoHost ELSE primary
    /\ UNCHANGED <<rs, _sets, _setsLock, watcher, mons, pc, stk, loc, cl, obs>>

Recover(h) ==
    /\ Spend("env")
    /\ h \in down
    /\ down' = down \ {h}
    /\ UNCHANGED <<rs, primary, _sets, _setsLock, watcher, mons, pc, stk, loc, cl, obs>>

\* The primary goes down and another member takes over.
Failover(h) ==
    /\ Spend("env")
    /\ primary # NoHost
    /\ h \notin down \cup {primary}
    /\ down' = down \cup {primary}
    /\ primary' = h
    /\ UNCHANGED <<rs, _sets, _setsLock, watcher, mons, pc, stk, loc, cl, obs>>

Elect(h) ==
    /\ Spend("env")
    /\ h \notin down
    /\ primary # h
    /\ primary' = h
    /\ UNCHANGED <<rs, down, _sets, _setsLock, watcher, mons, pc, stk, loc, cl, obs>>

\* ------------------------------------------------------------ steps
L(t) == loc[t]

SetLoc(t, r) == loc' = [loc EXCEPT ![t] = r]

\* The locals r as the method returns.
RetLoc(t, r) == loc' = [loc EXCEPT ![t] = Leave(t, r)]

This(t) == loc[t].this

\* Network I/O done outside any critical section of a monitor's _lock.
Io(t) == IF _setsLock = t THEN {"io under _setsLock"} ELSE {}

\* A write to the monitor's table made without its _lock.
RawWrite(m) == IF Shared(m) THEN {"unlocked write"} ELSE {}

Observe(tags) == obs' = obs \cup tags

\* --------------------------------------- ReplicaSetMonitor::get (81-91)
\* A caller in state "idle" calls get( name , servers ).
StartGet(t, n, s) ==
    /\ pc[t] = "idle"
    /\ Spend("calls")
    /\ SetLoc(t, [NoLoc EXCEPT !.name = n, !.seeds = s])
    /\ Call(t, "get", "idle")
    /\ UNCHANGED <<rs, primary, down, _sets, _setsLock, watcher, mons, cl, obs>>

\* scoped_lock lk( _setsLock );
get_lock(t) ==
    /\ pc[t] = "get"
    /\ _setsLock = ""
    /\ _setsLock' = t
    /\ Goto(t, "get_lookup")
    /\ UNCHANGED <<rs, budget, primary, down, _sets, watcher, mons, stk, loc, cl, obs>>

\* get without the test of line 84: every call builds a monitor.
LookupMisses(sets, name) == 0

\* ReplicaSetMonitorPtr& m = _sets[name];
Lookup(sets, name) == sets[name]

\* if ( ! m ) new ReplicaSetMonitor(...)
\* The constructor's initialiser list runs here: _master(-1), no nodes.
get_lookup(t) ==
    /\ pc[t] = "get_lookup"
    /\ IF Lookup(_sets, L(t).name) = 0
       THEN /\ mons' = Append(mons, [_name |-> L(t).name, _nodes |-> <<>>, _master |-> -1])
            /\ SetLoc(t, [L(t) EXCEPT !.this = Len(mons) + 1, !.i = 0])
            /\ Call(t, "ctor", "get_reset")
       ELSE /\ SetLoc(t, [L(t) EXCEPT !.this = Lookup(_sets, L(t).name)])
            /\ Goto(t, "get_return")
            /\ UNCHANGED <<mons, stk>>
    /\ UNCHANGED <<rs, budget, primary, down, _sets, _setsLock, watcher, cl, obs>>

\* m.reset( ... ): the constructed monitor is stored in the map.
get_reset(t) ==
    /\ pc[t] = "get_reset"
    /\ _sets' = [_sets EXCEPT ![L(t).name] = This(t)]
    /\ Goto(t, "get_return")
    /\ UNCHANGED <<rs, budget, primary, down, _setsLock, watcher, mons, stk, loc, cl, obs>>

\* if ( watcher NotStarted ) go(); return m;  (lk is released on return)
get_return(t) ==
    /\ pc[t] = "get_return"
    /\ watcher' = "Running"
    /\ _setsLock' = ""
    /\ SetLoc(t, [NoLoc EXCEPT !.this = This(t), !.name = L(t).name])
    /\ Return(t)
    /\ UNCHANGED <<rs, budget, primary, down, _sets, mons, cl, obs>>

\* ------------------------- ReplicaSetMonitor::ReplicaSetMonitor (52-72)
\* One turn of the loop over the seeds: connect, push_back, then
\* _checkConnection on the new node's connection.
ctor(t) ==
    /\ pc[t] = "ctor"
    /\ LET m == This(t)
           i == L(t).i
       IN  IF i >= Len(L(t).seeds)
           THEN /\ Return(t)
                /\ SetLoc(t, [L(t) EXCEPT !.i = 0, !.seeds = <<>>])
                /\ UNCHANGED <<mons, obs>>
           ELSE IF L(t).seeds[i + 1] \in down
           THEN \* skip seeds that don't work
                /\ SetLoc(t, [L(t) EXCEPT !.i = i + 1])
                /\ Observe(Io(t))
                /\ UNCHANGED <<mons, pc, stk>>
           ELSE /\ mons' = [mons EXCEPT ![m]._nodes = Append(@, Node(L(t).seeds[i + 1]))]
                /\ SetLoc(t, [L(t) EXCEPT !.c = L(t).seeds[i + 1]])
                /\ Call(t, "cc_isMaster", "ctor_checked")
                /\ Observe(Io(t) \cup RawWrite(m))
    /\ UNCHANGED <<rs, budget, primary, down, _sets, _setsLock, watcher, cl>>

\* if ( _checkConnection( ... ) ) break;
ctor_checked(t) ==
    /\ pc[t] = "ctor_checked"
    /\ IF L(t).retB
       THEN /\ Return(t)
            /\ SetLoc(t, [L(t) EXCEPT !.i = 0, !.seeds = <<>>, !.retB = FALSE,
                                       !.hint = NoHost])
       ELSE /\ Goto(t, "ctor")
            /\ SetLoc(t, [L(t) EXCEPT !.i = @ + 1, !.hint = NoHost])
            /\ UNCHANGED stk
    /\ UNCHANGED <<rs, budget, primary, down, _sets, _setsLock, watcher, mons, cl, obs>>

\* --------------------------- ReplicaSetMonitor::_checkConnection (239-270)
\* What _checkConnection leaves in its caller's maybePrimary: the reply's
\* "primary" is assigned to the string declared at line 249, which hides
\* the reference parameter, so the caller's string keeps its value.
CallerMaybePrimary(old, reply) == old

\* c->isMaster(isMaster, &o).  A dead server makes it throw; the catch at
\* line 262 leaves isMaster false and skips hosts, passives and status.
\* hint is the string declared at line 249, which receives o["primary"]; it
\* is kept until the caller has looked at what _checkConnection gave it.
cc_isMaster(t) ==
    /\ pc[t] = "cc_isMaster"
    /\ LET c == L(t).c
       IN  IF c \in down
           THEN /\ SetLoc(t, [L(t) EXCEPT !.c = NoHost, !.retB = FALSE, !.hint = NoHost])
                /\ Return(t)
           ELSE LET o == IsMasterReply(c)
                IN  /\ SetLoc(t, [L(t) EXCEPT
                            !.isMaster = o.ismaster,
                            !.hint = o.primary,
                            !.maybePrimary = CallerMaybePrimary(@, o),
                            !.hl = o.hosts \o o.passives])
                    /\ Goto(t, "ch_find")
                    /\ UNCHANGED stk
    /\ Observe(Io(t))
    /\ UNCHANGED <<rs, budget, primary, down, _sets, _setsLock, watcher, mons, cl>>

\* ------------------------------- ReplicaSetMonitor::_checkHosts (218-237)
\* The hosts of the list from the first one _find does not know: the loop
\* passes over the known ones ( if ( _find( toCheck ) >= 0 ) continue; ).
RECURSIVE FromFirstUnknown(_, _)
FromFirstUnknown(m, hl) ==
    IF hl = <<>> THEN <<>>
    ELSE IF _find(m, Head(hl)) >= 0 THEN FromFirstUnknown(m, Tail(hl))
    ELSE hl

\* The loop up to the next host that _find (under _lock) does not know.
ch_find(t) ==
    /\ pc[t] = "ch_find"
    /\ LET rest == FromFirstUnknown(This(t), L(t).hl)
       IN  /\ SetLoc(t, [L(t) EXCEPT !.hl = rest])
           /\ Goto(t, IF rest = <<>> THEN "st" ELSE "ch_push")
    /\ UNCHANGED <<rs, budget, primary, down, _sets, _setsLock, watcher, mons, stk, cl, obs>>

\* newConn->connect( h , temp ) with its result ignored, then under _lock
\* _nodes.push_back( Node( h , newConn ) ).
ch_push(t) ==
    /\ pc[t] = "ch_push"
    /\ mons' = [mons EXCEPT ![This(t)]._nodes = Append(@, Node(Head(L(t).hl)))]
    /\ SetLoc(t, [L(t) EXCEPT !.hl = Tail(@)])
    /\ Goto(t, "ch_find")
    /\ Observe(Io(t))
    /\ UNCHANGED <<rs, budget, primary, down, _sets, _setsLock, watcher, stk, cl>>

\* ------------------------------ ReplicaSetMonitor::_checkStatus (187-216)
\* The index of the node a members entry is applied to, or -1 to skip it:
\* if ((m = _find(host)) <= 0) continue;
StatusTarget(nodes, host) ==
    LET hit == {k \in 0..(Len(nodes) - 1) : nodes[k + 1].addr = host}
        m == IF hit = {} THEN -1 ELSE Min(hit)
    IN  IF m <= 0 THEN -1 ELSE m

Healthy(member) == member.health = 1 /\ (member.state = 1 \/ member.state = 2)

\* The table after the loop over the entries of "members".
RECURSIVE ApplyStatus(_, _)
ApplyStatus(nodes, members) ==
    IF members = <<>> THEN nodes
    ELSE LET k == StatusTarget(nodes, Head(members).name)
         IN  ApplyStatus(IF k < 0 THEN nodes
                         ELSE [nodes EXCEPT ![k + 1].ok = Healthy(Head(members))],
                         Tail(members))

\* conn->runCommand("admin", {replSetGetStatus: 1}, status) and the loop
\* over its members; then _checkConnection returns isMaster (the hook at
\* line 266 is outside the model: it changes no state of the monitor).
st(t) ==
    /\ pc[t] = "st"
    /\ mons' = IF L(t).c \in down THEN mons
               ELSE [mons EXCEPT ![This(t)]._nodes = ApplyStatus(@, StatusMembers)]
    /\ SetLoc(t, [L(t) EXCEPT !.c = NoHost, !.retB = L(t).isMaster, !.isMaster = FALSE])
    /\ Return(t)
    /\ Observe(Io(t))
    /\ UNCHANGED <<rs, budget, primary, down, _sets, _setsLock, watcher, cl>>

\* ------------------------------------ ReplicaSetMonitor::_check (272-313)
EnterCheck(l) == [l EXCEPT !.i = 0, !.retry = 0, !.triedQuickCheck = FALSE,
                           !.maybePrimary = NoHost, !.x = -1, !.retB = FALSE,
                           !.hint = NoHost]

LeaveCheck(l) == [l EXCEPT !.i = 0, !.retry = 0, !.triedQuickCheck = FALSE,
                           !.maybePrimary = NoHost, !.x = -1, !.retB = FALSE,
                           !.hint = NoHost]

\* The head of the two loops: the next node to probe, the next round
\* (after sleepsecs(1)), or the end of the second round.
ck_next(t) ==
    /\ pc[t] = "ck_next"
    /\ LET m == This(t)
       IN  IF L(t).retry >= 2
           THEN /\ RetLoc(t, LeaveCheck(L(t)))
                /\ Return(t)
           ELSE IF L(t).i >= Size(m)
           THEN /\ SetLoc(t, [L(t) EXCEPT !.retry = @ + 1, !.i = 0])
                /\ UNCHANGED <<pc, stk>>
           ELSE /\ SetLoc(t, [L(t) EXCEPT !.c = At(m, L(t).i).addr])
                /\ Call(t, "cc_isMaster", "ck_probed")
    /\ UNCHANGED <<rs, budget, primary, down, _sets, _setsLock, watcher, mons, cl, obs>>

\* _check with a slip of one in the index it stores.
MasterFoundOffByOne(k) == k + 1

\* The value _check stores in _master when a probe reported isMaster.
MasterFound(k) == k

\* After _checkConnection returned (lines 287-307): of the probe of node i,
\* or (x >= 0) of the quick check of the hinted node x.
ck_probed(t) ==
    /\ pc[t] = "ck_probed"
    /\ LET m == This(t)
           l == L(t)
           hinted == IF ~l.triedQuickCheck /\ l.maybePrimary # NoHost
                     THEN _find(m, l.maybePrimary) ELSE -1
       IN  IF l.retB
           THEN /\ mons' = [mons EXCEPT ![m]._master =
                               MasterFound(IF l.x >= 0 THEN l.x ELSE l.i)]
                /\ Observe(RawWrite(m))
                /\ RetLoc(t, LeaveCheck(l))
                /\ Return(t)
           ELSE IF l.x < 0 /\ hinted >= 0
           THEN /\ SetLoc(t, [l EXCEPT !.triedQuickCheck = TRUE, !.x = hinted,
                                       !.c = At(m, hinted).addr, !.hint = NoHost])
                /\ Call(t, "cc_isMaster", "ck_probed")
                /\ UNCHANGED <<mons, obs>>
           ELSE /\ SetLoc(t, [l EXCEPT !.i = @ + 1, !.x = -1, !.hint = NoHost])
                /\ Goto(t, "ck_next")
                /\ UNCHANGED <<mons, obs, stk>>
    /\ UNCHANGED <<rs, budget, primary, down, _sets, _setsLock, watcher, cl>>

\* ------------------------------------- ReplicaSetMonitor::check (315-327)
\* if ( _master >= 0 ), read without _lock.
chk(t) ==
    /\ pc[t] = "chk"
    /\ IF mons[This(t)]._master >= 0
       THEN /\ Goto(t, "chk_probe")
            /\ UNCHANGED loc
       ELSE /\ Goto(t, "ck_next")
            /\ SetLoc(t, EnterCheck(L(t)))
    /\ UNCHANGED <<rs, budget, primary, down, _sets, _setsLock, watcher, mons, stk, cl, obs>>

\* _checkConnection( _nodes[_master].conn , temp , false ): _master is read
\* again, without _lock.  If it is -1 by now the read is outside the
\* vector and the connection probed is whatever the memory there holds.
chk_probe(t) ==
    /\ pc[t] = "chk_probe"
    /\ LET m == This(t)
       IN  IF mons[m]._master < 0
           THEN /\ \E c \in Members : SetLoc(t, [L(t) EXCEPT !.c = c])
                /\ Observe({"index out of range"})
           ELSE /\ SetLoc(t, [L(t) EXCEPT !.c = At(m, mons[m]._master).addr])
                /\ UNCHANGED obs
    /\ Call(t, "cc_isMaster", "chk_probed")
    /\ UNCHANGED <<rs, budget, primary, down, _sets, _setsLock, watcher, mons, cl>>

\* current master is fine, so we're done; otherwise _check().
chk_probed(t) ==
    /\ pc[t] = "chk_probed"
    /\ IF L(t).retB
       THEN /\ RetLoc(t, [L(t) EXCEPT !.retB = FALSE, !.hint = NoHost])
            /\ Return(t)
       ELSE /\ SetLoc(t, EnterCheck(L(t)))
            /\ Goto(t, "ck_next")
            /\ UNCHANGED stk
    /\ UNCHANGED <<rs, budget, primary, down, _sets, _setsLock, watcher, mons, cl, obs>>

\* -------------------------------- ReplicaSetMonitor::getMaster (150-158)
\* if ( _master < 0 || !_nodes[_master].ok ) _check();
NeedsCheck(m) == mons[m]._master < 0 \/ ~At(m, mons[m]._master).ok

gm(t) ==
    /\ pc[t] = "gm"
    /\ IF NeedsCheck(This(t))
       THEN /\ SetLoc(t, EnterCheck(L(t)))
            /\ Call(t, "ck_next", "gm_assert")
       ELSE /\ Goto(t, "gm_assert")
            /\ UNCHANGED <<loc, stk>>
    /\ UNCHANGED <<rs, budget, primary, down, _sets, _setsLock, watcher, mons, cl, obs>>

\* An exception thrown in thread t: no method between getMaster and the
\* caller of the whole operation catches it.
Throw(t) ==
    /\ pc' = [pc EXCEPT ![t] = "idle"]
    /\ stk' = [stk EXCEPT ![t] = <<>>]

\* uassert( 10009 , "no master found for set" , _master >= 0 );
gm_assert(t) ==
    /\ pc[t] = "gm_assert"
    /\ IF mons[This(t)]._master >= 0
       THEN /\ Goto(t, "gm_return")
            /\ UNCHANGED <<stk, loc, cl>>
       ELSE /\ Throw(t)
            /\ SetLoc(t, [NoLoc EXCEPT !.this = This(t), !.name = L(t).name])
            /\ cl' = IF cl.call.op # "" /\ ~cl.call.done
                     THEN [cl EXCEPT !.call = Finish(@, TRUE)] ELSE cl
    /\ UNCHANGED <<rs, budget, primary, down, _sets, _setsLock, watcher, mons, obs>>

\* scoped_lock lk( _lock ); return _nodes[_master].addr;  With _master -1
\* by now the read is outside the vector: any address may come back.
gm_return(t) ==
    /\ pc[t] = "gm_return"
    /\ LET m == This(t)
       IN  IF mons[m]._master < 0
           THEN /\ \E h \in Members : RetLoc(t, [L(t) EXCEPT !.retH = h])
                /\ Observe({"index out of range"})
           ELSE /\ RetLoc(t, [L(t) EXCEPT !.retH = At(m, mons[m]._master).addr])
                /\ UNCHANGED obs
    /\ Return(t)
    /\ UNCHANGED <<rs, budget, primary, down, _sets, _setsLock, watcher, mons, cl>>

\* --------------------------------- ReplicaSetMonitor::getSlave (160-174)
\* The turns i of the scan from offset x that find a node to return.
SlaveScan(m, x) ==
    {i \in 0..(Size(m) - 1) :
        LET p == (i + x) % Size(m)
        IN  p # mons[m]._master /\ At(m, p).ok}

\* getSlave without the scan: the node at the offset, whatever it is.
SlaveIndexUnscanned(m, x) == x

\* The index of the node whose address getSlave returns, for rand() % size = x.
SlaveIndex(m, x) ==
    IF SlaveScan(m, x) = {} THEN 0
    ELSE (Min(SlaveScan(m, x)) + x) % Size(m)

\* With no node at all, rand() % _nodes.size() divides by zero and
\* _nodes[0] is outside the vector: any address may come back.
getSlave(t) ==
    /\ pc[t] = "gs"
    /\ LET m == This(t)
       IN  IF Size(m) = 0
           THEN /\ \E h \in Members : RetLoc(t, [L(t) EXCEPT !.retH = h])
                /\ Observe({"modulo zero", "index out of range"})
           ELSE /\ \E x \in 0..(Size(m) - 1) :
                      RetLoc(t, [L(t) EXCEPT !.retH = At(m, SlaveIndex(m, x)).addr])
                /\ UNCHANGED obs
    /\ Return(t)
    /\ UNCHANGED <<rs, budget, primary, down, _sets, _setsLock, watcher, mons, cl>>

\* ------------------------------ ReplicaSetMonitor::notifyFailure (140-146)
\* if ( _master >= 0 ), read without _lock.
nf(t) ==
    /\ pc[t] = "nf"
    /\ IF mons[This(t)]._master >= 0
       THEN /\ Goto(t, "nf_locked")
            /\ UNCHANGED <<stk, loc>>
       ELSE /\ RetLoc(t, L(t))
            /\ Return(t)
    /\ UNCHANGED <<rs, budget, primary, down, _sets, _setsLock, watcher, mons, cl, obs>>

\* notifyFailure without the assignment of line 144.
AfterFailureKeeps(master, addr, server) == master

\* The value notifyFailure leaves in _master, given the designated node's address.
AfterFailure(master, addr, server) == IF server = addr THEN -1 ELSE master

\* scoped_lock lk( _lock ); if ( server == _nodes[_master].addr ) _master = -1;
\* With _master -1 by now the comparison reads outside the vector; whatever
\* it yields, _master ends -1.
nf_locked(t) ==
    /\ pc[t] = "nf_locked"
    /\ LET m == This(t)
           master == mons[m]._master
       IN  IF master < 0
           THEN /\ Observe({"index out of range"})
                /\ UNCHANGED mons
           ELSE /\ mons' = [mons EXCEPT ![m]._master =
                               AfterFailure(master, At(m, master).addr, L(t).server)]
                /\ Observe(IF L(t).server = At(m, master).addr
                           THEN {"primary reported failed"} ELSE {})
    /\ RetLoc(t, L(t))
    /\ Return(t)
    /\ UNCHANGED <<rs, budget, primary, down, _sets, _setsLock, watcher, cl>>

\* ------------------------- ReplicaSetMonitor::notifySlaveFailure (179-185)
notifySlaveFailure(t) ==
    /\ pc[t] = "nsf"
    /\ LET m == This(t)
           x == _find(m, L(t).server)
       IN  mons' = IF x >= 0 THEN [mons EXCEPT ![m]._nodes[x + 1].ok = FALSE] ELSE mons
    /\ RetLoc(t, L(t))
    /\ Return(t)
    /\ UNCHANGED <<rs, budget, primary, down, _sets, _setsLock, watcher, cl, obs>>

Monitor(t) ==
    \/ ck_next(t) \/ ck_probed(t) \/ chk(t) \/ chk_probe(t) \/ chk_probed(t)
    \/ gm(t) \/ gm_assert(t) \/ gm_return(t) \/ getSlave(t)
    \/ nf(t) \/ nf_locked(t) \/ notifySlaveFailure(t)

\* --------------------------------------------------- callers of a monitor
\* The set every thread of the monitor specification works on.
SetName == "rs0"

\* How many calls of the monitor's methods the threads make in one run.
MaxOps == 2

\* A thread calls a public method of the shared monitor.
StartOp(t, entry, server) ==
    /\ pc[t] = "idle"
    /\ _sets[SetName] # 0
    /\ Spend("calls")
    /\ SetLoc(t, [NoLoc EXCEPT !.this = _sets[SetName], !.name = SetName,
                               !.server = server])
    /\ Call(t, entry, "idle")
    /\ UNCHANGED <<rs, primary, down, _sets, _setsLock, watcher, mons, cl, obs>>

Caller(t) ==
    \/ \E entry \in {"chk", "gm", "gs"} : StartOp(t, entry, NoHost)
    \/ \E entry \in {"nf", "nsf"}, server \in Members : StartOp(t, entry, server)

\* ------------------------------------------------------------ connections
\* A DBClientConnection of the client: the server it was opened against,
\* whether it is marked failed, and the credentials presented to it, each
\* with the server's answer.  A server that is down refuses connect, auth
\* and every operation, and the connection is then marked failed.
ValidCreds == {"alice"}

Connect(h) == [host |-> h, failed |-> (h \in down), authed |-> <<>>]

AuthOn(conn, cred) ==
    [conn EXCEPT !.authed = Append(@, [cred |-> cred,
                                       ok |-> (conn.host \notin down /\ cred \in ValidCreds)]),
                 !.failed = (conn.host \in down)]

OpOn(conn) == [conn EXCEPT !.failed = (conn.host \in down)]

\* ------------------------------------ DBClientReplicaSet::_auth (395-404)
\* Every cached AuthInfo is presented to the connection, in order; a
\* refusal is logged and the loop goes on.
RECURSIVE _auth(_, _)
_auth(conn, auths) ==
    IF auths = <<>> THEN conn
    ELSE _auth(AuthOn(conn, Head(auths)), Tail(auths))

\* The state a user call starts in, kept to state what the call must achieve.
Snapshot(m) ==
    [cached |-> cl._masterHost, failed |-> cl._master.failed, auths |-> cl._auths,
     primary |-> primary, known |-> {mons[m]._nodes[k].addr : k \in 1..Size(m)},
     designated |-> IF mons[m]._master >= 0 THEN At(m, mons[m]._master).addr ELSE NoHost,
     designatedOk |-> mons[m]._master >= 0 /\ At(m, mons[m]._master).ok,
     env |-> budget.env]

\* How many user calls the client's thread makes in one run.
MaxCalls == 4

WriteOps == {"insert", "update", "remove", "killCursor"}
ReadOps == {"query", "findOne", "call"}

\* The methods fall into three shapes of code; a call is recorded by its
\* shape ("callOther" is call() of a message that is no query).
Kind(op) == IF op \in WriteOps THEN "write"
            ELSE IF op = "auth" THEN "auth"
            ELSE "read"

\* if ( queryOptions & QueryOption_SlaveOk ), and for call() only
\* if ( toSend.operation() == dbQuery ).
Routed(op, slaveOk) == slaveOk /\ op \in ReadOps

\* ------------------------------ DBClientReplicaSet::checkMaster (360-375)
\* HostAndPort h = _monitor->getMaster();  then on to label `back`.
Enter(t, entry, frames) ==
    /\ pc' = [pc EXCEPT ![t] = entry]
    /\ stk' = [stk EXCEPT ![t] = frames \o @]

CallCheckMaster(t, back) == Enter(t, "gm", <<"cm_got", back>>)

\* checkMaster without the isFailed test of line 365.
CachedMasterSameHost(h) == h = cl._masterHost

\* if ( h == _masterHost ) if ( ! _master->isFailed() ) return _master.get();
CachedMasterGood(h) == h = cl._masterHost /\ ~cl._master.failed

\* if ( h == _masterHost ) { if ( ! _master->isFailed() ) return _master.get();
\*                           _monitor->notifyFailure( _masterHost ); }
cm_got(t) ==
    /\ pc[t] = "cm_got"
    /\ IF CachedMasterGood(L(t).retH)
       THEN /\ Return(t)
            /\ UNCHANGED <<loc, cl>>
       ELSE IF L(t).retH = cl._masterHost
       THEN /\ SetLoc(t, [L(t) EXCEPT !.server = cl._masterHost])
            /\ Call(t, "nf", "cm_again")
            /\ cl' = [cl EXCEPT !.call.notified = cl._masterHost]
       ELSE /\ Call(t, "gm", "cm_install")
            /\ UNCHANGED <<loc, cl>>
    /\ UNCHANGED <<rs, budget, primary, down, _sets, _setsLock, watcher, mons, obs>>

\* _masterHost = _monitor->getMaster();
cm_again(t) ==
    /\ pc[t] = "cm_again"
    /\ Call(t, "gm", "cm_install")
    /\ UNCHANGED <<rs, budget, primary, down, _sets, _setsLock, watcher, mons, loc, cl, obs>>

\* _master.reset( new DBClientConnection( true ) );
\* _master->connect( _masterHost ); _auth( _master.get() );
cm_install(t) ==
    /\ pc[t] = "cm_install"
    /\ cl' = [cl EXCEPT !._masterHost = L(t).retH,
                        !._master = _auth(Connect(L(t).retH), cl._auths)]
    /\ Return(t)
    /\ UNCHANGED <<rs, budget, primary, down, _sets, _setsLock, watcher, mons, loc, obs>>

\* ------------------------------- DBClientReplicaSet::checkSlave (377-392)
\* if ( _slave ) { if ( ! _slave->isFailed() ) return _slave.get();
\*                 _monitor->notifySlaveFailure( _slaveHost ); }
csl(t) ==
    /\ pc[t] = "csl"
    /\ IF cl._slave.host # NoHost /\ ~cl._slave.failed
       THEN /\ Return(t)
            /\ UNCHANGED loc
       ELSE IF cl._slave.host # NoHost
       THEN /\ SetLoc(t, [L(t) EXCEPT !.server = cl._slaveHost])
            /\ Call(t, "nsf", "csl_get")
       ELSE /\ Call(t, "gs", "csl_got")
            /\ UNCHANGED loc
    /\ UNCHANGED <<rs, budget, primary, down, _sets, _setsLock, watcher, mons, cl, obs>>

\* HostAndPort h = _monitor->getSlave();
csl_get(t) ==
    /\ pc[t] = "csl_get"
    /\ Call(t, "gs", "csl_got")
    /\ UNCHANGED <<rs, budget, primary, down, _sets, _setsLock, watcher, mons, loc, cl, obs>>

\* if ( h != _slaveHost ) { _slaveHost = h; _slave.reset( ... );
\*     _slave->connect( _slaveHost ); _auth( _slave.get() ); } return _slave.get();
csl_got(t) ==
    /\ pc[t] = "csl_got"
    /\ cl' = IF L(t).retH # cl._slaveHost
             THEN [cl EXCEPT !._slaveHost = L(t).retH,
                             !._slave = _auth(Connect(L(t).retH), cl._auths)]
             ELSE cl
    /\ Return(t)
    /\ UNCHANGED <<rs, budget, primary, down, _sets, _setsLock, watcher, mons, loc, obs>>

\* --------------------------------------------- user calls (427-517)
\* The thread that owns the client starts a call of one of its methods.
BeginCall(t, op, slaveOk, cred) ==
    /\ pc[t] = "idle"
    /\ This(t) # 0
    /\ Spend("calls")
    /\ SetLoc(t, [L(t) EXCEPT !.tries = 0])
    /\ cl' = [cl EXCEPT !.call = [NoCall EXCEPT !.op = Kind(op), !.slaveOk = slaveOk,
                                               !.cred = cred,
                                               !.snap = Snapshot(This(t))]]

\* insert, update, remove, killCursor: checkMaster()->op(...)
StartWrite(t, op) ==
    /\ BeginCall(t, op, FALSE, "")
    /\ Enter(t, "gm", <<"cm_got", "wr_do", "idle">>)
    /\ UNCHANGED <<rs, primary, down, _sets, _setsLock, watcher, mons, obs>>

\* How many times a SlaveOk read tries a secondary before the primary:
\* for ( int i=0; i<2; i++ )
SlaveTries == 2

\* The loop with one turn more.
OneMoreSlaveTry(tries) == tries < SlaveTries + 1

MoreSlaveTries(tries) == tries < SlaveTries

\* query, findOne, call: SlaveOk reads go to the loop over checkSlave().
StartRead(t, op, slaveOk) ==
    /\ BeginCall(t, op, Routed(op, slaveOk), "")
    /\ IF Routed(op, slaveOk)
       THEN Enter(t, "q_try", <<"idle">>)
       ELSE Enter(t, "gm", <<"cm_got", "q_master", "idle">>)
    /\ UNCHANGED <<rs, primary, down, _sets, _setsLock, watcher, mons, obs>>

\* for ( int i=0; i<2; i++ ) { try { return checkSlave()->op(...); } ... }
q_try(t) ==
    /\ pc[t] = "q_try"
    /\ IF MoreSlaveTries(L(t).tries)
       THEN Call(t, "csl", "q_slave")
       ELSE CallCheckMaster(t, "q_master")
    /\ UNCHANGED <<rs, budget, primary, down, _sets, _setsLock, watcher, mons, loc, cl, obs>>

Issued(on, conn) == [on |-> on, host |-> conn.host, ok |-> (conn.host \notin down)]

\* The operation on the secondary connection; catch ( DBException & ) and
\* the next turn of the loop if it throws.
q_slave(t) ==
    /\ pc[t] = "q_slave"
    /\ LET r == Issued("slave", cl._slave)
           logged == [cl.call EXCEPT !.log = Append(@, r)]
       IN  IF r.ok
           THEN /\ cl' = [cl EXCEPT !._slave = OpOn(@), !.call = Finish(logged, FALSE)]
                /\ Return(t)
                /\ SetLoc(t, [L(t) EXCEPT !.tries = 0])
           ELSE /\ cl' = [cl EXCEPT !._slave = OpOn(@), !.call = logged]
                /\ Goto(t, "q_try")
                /\ UNCHANGED stk
                /\ SetLoc(t, [L(t) EXCEPT !.tries = @ + 1])
    /\ UNCHANGED <<rs, budget, primary, down, _sets, _setsLock, watcher, mons, obs>>

\* return checkMaster()->op(...): the operation on the primary connection.
q_master(t) ==
    /\ pc[t] = "q_master"
    /\ LET r == Issued("master", cl._master)
       IN  cl' = [cl EXCEPT !._master = OpOn(@),
                           !.call = Finish([cl.call EXCEPT !.log = Append(@, r)], ~r.ok)]
    /\ SetLoc(t, [L(t) EXCEPT !.tries = 0])
    /\ Return(t)
    /\ UNCHANGED <<rs, budget, primary, down, _sets, _setsLock, watcher, mons, obs>>

\* A write sent to the secondary connection instead.
WriteOnSlave(op) == "slave"

\* The connection a write is issued on: checkMaster()->op(...)
WriteRoute(op) == "master"

wr_do(t) ==
    /\ pc[t] = "wr_do"
    /\ LET route == WriteRoute(cl.call.op)
           r == Issued(route, IF route = "master" THEN cl._master ELSE cl._slave)
           call == Finish([cl.call EXCEPT !.log = Append(@, r)], ~r.ok)
       IN  cl' = IF route = "master"
                 THEN [cl EXCEPT !._master = OpOn(@), !.call = call]
                 ELSE [cl EXCEPT !._slave = OpOn(@), !.call = call]
    /\ Return(t)
    /\ UNCHANGED <<rs, budget, primary, down, _sets, _setsLock, watcher, mons, loc, obs>>

\* ------------------------------------- DBClientReplicaSet::auth (427-437)
StartAuth(t, cred) ==
    /\ BeginCall(t, "auth", FALSE, cred)
    /\ Enter(t, "gm", <<"cm_got", "au_do", "idle">>)
    /\ UNCHANGED <<rs, primary, down, _sets, _setsLock, watcher, mons, obs>>

\* auth without the early return of line 432.
RememberAlways(auths, cred, ok) == Append(auths, cred)

\* The cache after m->auth(...) answered ok.
Remember(auths, cred, ok) == IF ok THEN Append(auths, cred) ELSE auths

\* if( ! m->auth(...) ) return false;  _auths.push_back( AuthInfo( ... ) );
au_do(t) ==
    /\ pc[t] = "au_do"
    /\ LET conn == AuthOn(cl._master, cl.call.cred)
           ok == conn.authed[Len(conn.authed)].ok
       IN  cl' = [cl EXCEPT !._master = conn,
                           !._auths = Remember(@, cl.call.cred, ok),
                           !.call = Finish([cl.call EXCEPT !.log =
                               Append(@, [on |-> "master", host |-> conn.host, ok |-> ok])],
                               FALSE)]
    /\ Return(t)
    /\ UNCHANGED <<rs, budget, primary, down, _sets, _setsLock, watcher, mons, loc, obs>>

Client(t) ==
    \/ \E op \in WriteOps : StartWrite(t, op)
    \/ \E op \in ReadOps \cup {"callOther"}, slaveOk \in BOOLEAN : StartRead(t, op, slaveOk)
    \/ \E cred \in Creds : StartAuth(t, cred)
    \/ cm_got(t) \/ cm_again(t) \/ cm_install(t)
    \/ csl(t) \/ csl_get(t) \/ csl_got(t)
    \/ q_try(t) \/ q_slave(t) \/ q_master(t) \/ wr_do(t) \/ au_do(t)

\* ------------------------------------------------------------ registry
NoClient == [_masterHost |-> NoHost, _master |-> NoConn,
             _slaveHost |-> NoHost, _slave |-> NoConn, _auths |-> <<>>,
             call |-> NoCall]

Env == \E h \in Members : Crash(h) \/ Recover(h) \/ Elect(h)

Construct(t) ==
    \/ get_lock(t) \/ get_lookup(t) \/ get_reset(t) \/ get_return(t)
    \/ ctor(t) \/ ctor_checked(t)

Probe(t) ==
    \/ cc_isMaster(t) \/ ch_find(t) \/ ch_push(t) \/ st(t)

InitReg ==
    /\ rs = [hosts |-> <<"A", "B">>, passives |-> <<>>]
    /\ budget = [env |-> 0, calls |-> MaxGets]
    /\ primary \in Members \cup {NoHost}
    /\ down \in SUBSET (Members \ {primary})
    /\ _sets = [n \in Names |-> 0]
    /\ _setsLock = ""
    /\ watcher = "NotStarted"
    /\ mons = <<>>
    /\ pc = [t \in Threads |-> "idle"]
    /\ stk = [t \in Threads |-> <<>>]
    /\ loc = [t \in Threads |-> NoLoc]
    /\ cl = NoClient
    /\ obs = {}

NextReg ==
    \/ \E t \in Threads :
          \/ \E n \in Names, s \in SeedLists : StartGet(t, n, s)
          \/ Construct(t)
          \/ Probe(t)

SpecReg == InitReg /\ [][NextReg]_vars

\* ------------------------------------------------------------ monitor
\* Thread t1 is in get( "rs0" , seeds ); every thread then calls the
\* methods of the monitor that get stored.
Init ==
    /\ rs = [hosts |-> <<"A", "B">>, passives |-> <<>>]
    /\ budget = [env |-> MaxEnv, calls |-> MaxOps]
    /\ primary = "A"
    /\ down = {}
    /\ _sets = [n \in Names |-> 0]
    /\ _setsLock = ""
    /\ watcher = "NotStarted"
    /\ mons = <<>>
    /\ pc = [t \in Threads |-> IF t = "t1" THEN "get" ELSE "idle"]
    /\ stk = [t \in Threads |-> IF t = "t1" THEN <<"idle">> ELSE <<>>]
    /\ \E s \in SeedLists :
          loc = [t \in Threads |->
                    IF t = "t1" THEN [NoLoc EXCEPT !.name = SetName, !.seeds = s]
                    ELSE NoLoc]
    /\ cl = NoClient
    /\ obs = {}

Next ==
    \/ \E t \in Threads : Caller(t) \/ Construct(t) \/ Probe(t) \/ Monitor(t)
    \/ Env

Spec == Init /\ [][Next]_vars

\* ------------------------------------------------------------ client
\* One thread builds a DBClientReplicaSet from one seed (its constructor
\* calls get( "rs0" , seeds )) and then calls its methods one after another.
\* The set has a primary and two secondaries, one of which may be down.
ClientSeeds == {<<h>> : h \in Hosts}

InitClient ==
    /\ rs = [hosts |-> <<"A", "B">>, passives |-> <<"C">>]
    /\ budget = [env |-> MaxEnv, calls |-> MaxCalls]
    /\ primary = "A"
    /\ down \in {{}, {"C"}}
    /\ _sets = [n \in Names |-> 0]
    /\ _setsLock = ""
    /\ watcher = "NotStarted"
    /\ mons = <<>>
    /\ pc = [t \in Threads |-> IF t = "t1" THEN "get" ELSE "idle"]
    /\ stk = [t \in Threads |-> IF t = "t1" THEN <<"idle">> ELSE <<>>]
    /\ \E s \in ClientSeeds :
          loc = [t \in Threads |->
                    IF t = "t1" THEN [NoLoc EXCEPT !.name = SetName, !.seeds = s]
                    ELSE NoLoc]
    /\ cl = NoClient
    /\ obs = {}

Methods(t) ==
    \/ ck_next(t) \/ ck_probed(t)
    \/ gm(t) \/ gm_assert(t) \/ gm_return(t) \/ getSlave(t)
    \/ nf(t) \/ nf_locked(t) \/ notifySlaveFailure(t)

NextClient ==
    \/ Client("t1") \/ Construct("t1") \/ Probe("t1") \/ Methods("t1")
    \/ Env
    \/ \E h \in Members : Failover(h)

SpecClient == InitClient /\ [][NextClient]_vars

\* ================================================================ properties
\* -------------------------------------------------------------------- C1
\* C1: in every reachable state of a monitor, no two nodes of its table
\* have the same address.
NodeAddressesUnique ==
    \A m \in 1..Len(mons) : \A j, k \in 1..Size(m) :
        mons[m]._nodes[j].addr = mons[m]._nodes[k].addr => j = k

\* -------------------------------------------------------------------- C2
\* C2: in every reachable state of a monitor, _master is -1 or an index of
\* the node table: 0 <= _master < _nodes.size().
MasterInRange ==
    \A m \in 1..Len(mons) :
        mons[m]._master = -1 \/ (0 <= mons[m]._master /\ mons[m]._master < Size(m))

\* A check designated the last node of a table of two or more nodes.
MasterDesignatesLastNode ==
    \E m \in 1..Len(mons) : Size(m) >= 2 /\ mons[m]._master = Size(m) - 1

\* -------------------------------------------------------------------- C3
\* C3: getMaster never returns an address while _master is -1: the step
\* that returns _nodes[_master].addr is taken with _master >= 0.
GetMasterReturnsDesignated ==
    [][\A t \in Threads :
          (pc[t] = "gm_return" /\ pc'[t] # "gm_return") => mons[This(t)]._master >= 0]_vars

\* -------------------------------------------------------------------- C4
NotifyFailureStep(t) ==
    LET m == This(t)
        master == mons[m]._master
    IN  /\ (pc[t] = "nf" /\ pc'[t] # "nf") => mons' = mons
        /\ (pc[t] = "nf_locked" /\ pc'[t] # "nf_locked" /\ master >= 0) =>
              mons'[m]._master = IF L(t).server = At(m, master).addr THEN -1 ELSE master

MasterSetOnlyByCheck(m) ==
    (mons[m]._master = -1 /\ mons'[m]._master # -1) =>
        \E t \in Threads : pc[t] = "ck_probed" /\ This(t) = m /\ L(t).retB

\* C4: notifyFailure(a) with a the address of the designated primary sets
\* _master to -1, and _master stays -1 until a check in which a probed node
\* reported isMaster true sets it; notifyFailure with any other address
\* leaves _master unchanged.
NotifyFailureClearsUntilCheck ==
    [][/\ \A t \in Threads : NotifyFailureStep(t)
       /\ \A m \in 1..Len(mons) : MasterSetOnlyByCheck(m)]_vars

\* notifyFailure was called with the designated primary's address and the
\* monitor has no designated primary.
PrimaryClearedByFailure ==
    /\ "primary reported failed" \in obs
    /\ \E m \in 1..Len(mons) : Size(m) > 0 /\ mons[m]._master = -1

\* -------------------------------------------------------------------- C6
\* The table has a node that is not the designated primary and is marked ok.
HasHealthySecondary(m) ==
    \E p \in 0..(Size(m) - 1) : p # mons[m]._master /\ At(m, p).ok

\* C6: when the table has a node that is not the designated primary and is
\* marked ok, getSlave does not return the designated primary's address,
\* whatever rand() yields.
GetSlaveAvoidsPrimary ==
    \A t \in Threads :
        LET m == This(t)
        IN  (pc[t] = "gs" /\ mons[m]._master >= 0 /\ mons[m]._master < Size(m)
                /\ HasHealthySecondary(m)) =>
            \A x \in 0..(Size(m) - 1) :
                At(m, SlaveIndex(m, x)).addr # At(m, mons[m]._master).addr

\* ------------------------------------------------- the client's calls
Log == cl.call.log

OnSlave == SelectSeq(Log, LAMBDA e : e.on = "slave")

OnMaster == SelectSeq(Log, LAMBDA e : e.on = "master")

\* The call is a query, findOne or call of a query message with SlaveOk set.
SlaveOkRead == cl.call.op = "read" /\ cl.call.slaveOk

\* -------------------------------------------------------------------- C5
\* The call started with the cached primary connection to A marked failed
\* and with another node B of the table reporting isMaster, and the servers
\* have not changed since.
FailoverPending ==
    LET s == cl.call.snap
    IN  /\ cl.call.op = "write"
        /\ s.cached # NoHost /\ s.failed
        /\ s.primary # NoHost /\ s.primary # s.cached /\ s.primary \in s.known
        /\ budget.env = s.env

ReadRouting ==
    cl.call.op = "read" =>
        /\ Len(OnSlave) <= (IF SlaveOkRead THEN 2 ELSE 0)
        /\ Len(OnMaster) <= 1
        /\ \A k \in 1..Len(Log) :
              /\ k < Len(Log) => ~Log[k].ok /\ Log[k].on = "slave"
              /\ (Log[k].on = "master" /\ SlaveOkRead) => k = 3
              /\ Log[k].on = "master" => Log[k].host = cl._masterHost
        /\ (cl.call.done /\ ~cl.call.threw) => (Log # <<>> /\ Log[Len(Log)].ok)
        /\ (cl.call.done /\ cl.call.threw) =>
              /\ SlaveOkRead => Len(OnSlave) = 2
              /\ Len(OnMaster) = 1 => ~Log[Len(Log)].ok
        /\ (cl.call.done /\ ~SlaveOkRead /\ Len(Log) = 0) => cl.call.threw

\* A SlaveOk read failed twice on a secondary and was then served by the
\* primary.
ReadFellBackToPrimary ==
    /\ SlaveOkRead /\ cl.call.done /\ ~cl.call.threw
    /\ Len(Log) = 3 /\ ~Log[1].ok /\ ~Log[2].ok
    /\ Log[3].on = "master" /\ Log[3].ok

\* -------------------------------------------------------------------- C8
\* C8: a call of insert, update, remove or killCursor in which checkMaster
\* returned a connection issues the operation exactly once, on that
\* connection, never on the secondary connection; if the attempt fails the
\* error reaches the caller and nothing is issued again.
WriteOnceOnPrimary ==
    cl.call.op = "write" =>
        /\ Len(Log) <= 1
        /\ \A k \in 1..Len(Log) :
              /\ Log[k].on = "master"
              /\ Log[k].host = cl._master.host /\ Log[k].host = cl._masterHost
              /\ cl.call.done /\ cl.call.threw = ~Log[k].ok
        /\ (cl.call.done /\ Len(Log) = 0) => cl.call.threw
        /\ (pc["t1"] = "idle") => cl.call.done

\* A write failed on the primary connection and the caller got the error
\* after that one attempt.
WriteFailedOnce ==
    /\ cl.call.op = "write" /\ cl.call.done /\ cl.call.threw
    /\ Len(Log) = 1 /\ ~Log[1].ok

\* -------------------------------------------------------------------- C9
CredsOf(conn) == [k \in 1..Len(conn.authed) |-> conn.authed[k].cred]

\* The cache is what it was when the call started, with the call's
\* credential appended if the call is an auth that the primary accepted.
CacheFollowsAuth ==
    cl.call.op # "" =>
        cl._auths = IF cl.call.op = "auth" /\ cl.call.done /\ ~cl.call.threw /\ Log[1].ok
                    THEN Append(cl.call.snap.auths, cl.call.cred)
                    ELSE cl.call.snap.auths

\* A step that installs a connection presents the whole cache to it, in order.
InstallReplays ==
    /\ (pc["t1"] = "cm_install" /\ pc'["t1"] # "cm_install") =>
          /\ cl'._master.host = loc["t1"].retH
          /\ CredsOf(cl'._master) = cl._auths
    /\ (pc["t1"] = "csl_got" /\ pc'["t1"] # "csl_got" /\ cl'._slave # cl._slave) =>
          /\ cl'._slave.host = loc["t1"].retH
          /\ CredsOf(cl'._slave) = cl._auths

\* C9: auth caches a credential exactly when auth on the primary succeeds,
\* and every connection the client installs, primary or secondary, has had
\* every cached credential presented to it, in cache order, whether or not
\* the server accepted them.
CredentialsCachedAndReplayed ==
    /\ [](/\ CacheFollowsAuth
          /\ \A k \in 1..Len(cl._auths) : cl._auths[k] \in ValidCreds)
    /\ [][InstallReplays]_vars

\* A secondary connection was installed with the cached credential
\* presented to it and refused.
ReplayedAndRefused ==
    /\ cl._auths # <<>>
    /\ cl._slave.host # NoHost
    /\ CredsOf(cl._slave) = cl._auths
    /\ \E k \in 1..Len(cl._slave.authed) : ~cl._slave.authed[k].ok

\* ------------------------------------------------------------------- C10
\* A thread whose get found the name registered goes on to return that
\* monitor and changes no monitor.
GetOfKnownName(t) ==
    (pc[t] = "get_lookup" /\ pc'[t] # "get_lookup" /\ _sets[L(t).name] # 0) =>
        /\ mons' = mons
        /\ pc'[t] = "get_return"
        /\ loc'[t].this = _sets[L(t).name]

\* C10: get returns the same monitor for equal names and distinct monitors
\* for different names, a monitor is constructed at most once per name, and
\* the seeds of a later get for a registered name change no node table.
RegistryOneMonitorPerName ==
    /\ [](/\ \A m1, m2 \in 1..Len(mons) : mons[m1]._name = mons[m2]._name => m1 = m2
          /\ \A n \in Names : _sets[n] # 0 => mons[_sets[n]]._name = n
          /\ \A t \in Threads :
                (pc[t] = "idle" /\ This(t) # 0) => This(t) = _sets[L(t).name])
    /\ [][\A t \in Threads : GetOfKnownName(t)]_vars

\* Both threads called get with the same name and hold the same monitor, and
\* no call is left.
TwoGetsOneMonitor ==
    /\ budget.calls = 0
    /\ \A t \in Threads : pc[t] = "idle" /\ This(t) # 0
    /\ loc["t1"].name = loc["t2"].name
    /\ loc["t1"].this = loc["t2"].this
    /\ Len(mons) = 1

\* ------------------------------------------------------------------- C11
\* C11: when _check ends its second round without any probe having
\* reported isMaster, _master is -1 as _check returns, whatever it was when
\* _check started.
CheckWithoutPrimaryClearsMaster ==
    [][\A t \in Threads :
          (pc[t] = "ck_next" /\ L(t).retry >= 2 /\ pc'[t] # "ck_next") =>
              mons'[This(t)]._master = -1]_vars

\* ------------------------------------------------------------------- C12
\* The steps that read _nodes[_master]: check (line 319), getMaster
\* (line 157) and notifyFailure (line 143).
IndexesByMaster(t) == pc[t] \in {"chk_probe", "gm_return", "nf_locked"}

\* C12: under every interleaving of getMaster, check, _check, notifyFailure
\* and getSlave on one shared monitor, each step that reads _nodes[_master]
\* is taken with 0 <= _master < _nodes.size().
MasterIndexedInRange ==
    [][\A t \in Threads :
          (IndexesByMaster(t) /\ pc'[t] # pc[t]) =>
              (0 <= mons[This(t)]._master /\ mons[This(t)]._master < Size(This(t)))]_vars

\* ------------------------------------------------------------------- C13
\* C13: after _checkStatus processed a replSetGetStatus reply, every entry
\* of members whose name _find locates in the table, at any index from 0 on,
\* has left that node's ok flag true if health is 1 and state is 1 or 2,
\* and false otherwise.
StatusAppliedToEveryKnownMember ==
    [][\A t \in Threads :
          (pc[t] = "st" /\ pc'[t] # "st" /\ L(t).c \notin down) =>
              \A k \in 1..Len(StatusMembers) :
                  LET j == _find(This(t), StatusMembers[k].name)
                  IN  j >= 0 =>
                        mons'[This(t)]._nodes[j + 1].ok = Healthy(StatusMembers[k])]_vars

\* ------------------------------------------------------------------- C14
\* The probe of node i in _check reported no primary and its reply named,
\* as primary, a node of the table.
HintedKnownNode(t) ==
    /\ pc[t] = "ck_probed" /\ ~L(t).retB /\ L(t).x < 0
    /\ L(t).hint # NoHost /\ _find(This(t), L(t).hint) >= 0

\* C14: in _check, after a probe whose reply hints at a node of the table,
\* the next node probed is the hinted one (by a quick check ahead of the
\* nodes between, or because it is the next of the scan); a quick check
\* that reports primary sets _master to the hinted node's index and ends
\* _check; there is one quick check per _check at most.
QuickCheckOfHintedNode ==
    [][\A t \in Threads :
          LET m == This(t)
              l == L(t)
          IN  /\ (HintedKnownNode(t) /\ ~l.triedQuickCheck /\ pc'[t] # pc[t]) =>
                    \/ pc'[t] = "cc_isMaster" /\ loc'[t].c = l.hint
                    \/ /\ pc'[t] = "ck_next" /\ l.i + 1 < Size(m)
                       /\ At(m, l.i + 1).addr = l.hint
              /\ (pc[t] = "ck_probed" /\ pc'[t] = "cc_isMaster") => ~l.triedQuickCheck
              /\ (pc[t] = "ck_probed" /\ l.retB /\ l.x >= 0 /\ pc'[t] # pc[t]) =>
                    /\ mons'[m]._master = l.x
                    /\ pc'[t] # "ck_next"]_vars

\* ------------------------------------------------------------------- C15
\* C15: a caller whose _checkConnection reported primary sets _master to
\* the probed node's index: _check to the index it probed, and the
\* constructor, which stops at the first seed that reports primary, to the
\* index of that seed's node, so that _master designates it on return.
CheckReportingPrimarySetsMaster ==
    [][\A t \in Threads :
          LET m == This(t)
              l == L(t)
          IN  /\ (pc[t] = "ck_probed" /\ l.retB /\ pc'[t] # pc[t]) =>
                    mons'[m]._master = (IF l.x >= 0 THEN l.x ELSE l.i)
              /\ (pc[t] = "ctor_checked" /\ l.retB /\ pc'[t] # pc[t]) =>
                    /\ pc'[t] = "get_reset"
                    /\ 0 <= mons'[m]._master /\ mons'[m]._master < Size(m)
                    /\ mons'[m]._nodes[mons'[m]._master + 1].addr = l.seeds[l.i + 1]]_vars

\* ------------------------------------------------------------------- C16
\* The cached secondary connection is marked failed (an attempt on it failed).
SlaveFailed == cl._slave.host # NoHost /\ cl._slave.failed

\* The table has a node marked ok, other than the designated primary, whose
\* address is not the failed secondary's.
OtherSecondaryOk(m) ==
    \E p \in 0..(Size(m) - 1) :
        p # mons[m]._master /\ At(m, p).ok /\ At(m, p).addr # cl._slaveHost

CheckSlaveStep ==
    LET t == "t1"
        m == This(t)
        x == _find(m, L(t).server)
    IN  /\ (pc[t] = "csl" /\ pc'[t] # pc[t] /\ SlaveFailed) =>
              (pc'[t] = "nsf" /\ loc'[t].server = cl._slaveHost)
        /\ (pc[t] = "nsf" /\ pc'[t] # pc[t] /\ Head(stk[t]) = "csl_get" /\ x >= 0) =>
              ~mons'[m]._nodes[x + 1].ok
        /\ (pc[t] = "csl_got" /\ pc'[t] # pc[t] /\ SlaveFailed /\ OtherSecondaryOk(m)) =>
              /\ cl'._slaveHost # cl._slaveHost
              /\ cl'._slave.host = cl'._slaveHost
              /\ \E p \in 0..(Size(m) - 1) :
                    /\ At(m, p).addr = cl'._slaveHost
                    /\ p # mons[m]._master /\ At(m, p).ok
              /\ _find(m, cl._slaveHost) >= 0 => ~At(m, _find(m, cl._slaveHost)).ok
        /\ (pc[t] = "q_slave" /\ pc'[t] # pc[t]) =>
              /\ cl._slave.host = cl._slaveHost
              /\ cl'.call.log = Append(Log, [on |-> "slave", host |-> cl._slaveHost,
                                              ok |-> (cl._slaveHost \notin down)])

UnderLock == {"ch_push", "st", "nsf", "nf_locked"}

\* C17: every change of the node table or of _master of a monitor that is
\* shared between threads is made by a thread that holds its _lock.
TableChangedUnderLock ==
    [][\A m \in 1..Len(mons) :
          (Shared(m) /\ mons'[m] # mons[m]) =>
              \E t \in Threads : This(t) = m /\ pc[t] \in UnderLock /\ pc'[t] # pc[t]]_vars

\* ------------------------------------------------------------------- C18
\* Thread t is about to do network I/O: the constructor's connect (59),
\* isMaster (244), the connect of _checkHosts (229), replSetGetStatus (190).
AtNetworkIo(t) ==
    \/ pc[t] = "ctor" /\ L(t).i < Len(L(t).seeds)
    \/ pc[t] \in {"cc_isMaster", "ch_push", "st"}

\* C18: no thread does network I/O while it holds the registry's _setsLock,
\* so that a get of a registered name never waits for the discovery of
\* another set.
NoNetworkIoUnderSetsLock ==
    [][\A t \in Threads :
          (AtNetworkIo(t) /\ (pc'[t] # pc[t] \/ loc'[t] # loc[t])) => _setsLock # t]_vars

\* ------------------------------------------------------------------- C19
\* What a step does with the monitor's _lock, in the order of the source:
\* "acquire" and "release" are the two ends of a scoped_lock lk( _lock )
\* (in _find, getServerAddress and the methods' own blocks), "io" is a call
\* on a connection (connect, isMaster, runCommand, or an operation of the
\* client).
Net == <<"io">>

Section == <<"acquire", "release">>

RECURSIVE Times(_, _)
Times(events, n) == IF n <= 0 THEN <<>> ELSE events \o Times(events, n - 1)

\* _checkHosts with the connect of line 229 moved into the scoped_lock.
HostPushConnectsInside == <<"acquire", "io", "release">> \o Section

\* _checkHosts for a host to add: connect (229), the scoped_lock around
\* push_back (231-233), getServerAddress in the log line (234).
HostPush == Net \o Section \o Section

\* _checkStatus: runCommand (190), then for each entry of members _find
\* (202) and, for a node it finds past index 0, the scoped_lock around the
\* assignment to ok (208-213).
StatusEvents(m, c) ==
    IF c \in down THEN Net
    ELSE Net \o Times(Section, Len(StatusMembers))
             \o Times(Section, Cardinality({k \in 1..Len(StatusMembers) :
                                   StatusTarget(mons[m]._nodes, StatusMembers[k].name) >= 0}))

LockEvents(t) ==
    LET m == This(t)
        l == L(t)
        at == pc[t]
    IN  CASE at = "ctor" -> IF l.i < Len(l.seeds) THEN Net ELSE <<>>
          [] at = "cc_isMaster" -> Net
          [] at = "ch_find" -> Times(Section, Len(l.hl) - Len(FromFirstUnknown(m, l.hl))
                                              + (IF FromFirstUnknown(m, l.hl) = <<>> THEN 0 ELSE 1))
          [] at = "ch_push" -> HostPush
          [] at = "st" -> StatusEvents(m, l.c)
          [] at = "ck_next" -> (IF l.retry = 0 /\ l.i = 0 THEN Section ELSE <<>>)
                               \o (IF l.retry < 2 /\ l.i < Size(m) THEN Section ELSE <<>>)
          [] at = "ck_probed" -> IF ~l.retB /\ ~l.triedQuickCheck /\ l.maybePrimary # NoHost
                                 THEN Section \o (IF _find(m, l.maybePrimary) >= 0
                                                  THEN Section ELSE <<>>)
                                 ELSE <<>>
          [] at = "gm_return" -> Section
          [] at = "gs" -> IF Size(m) = 0 THEN <<>> ELSE Section
          [] at = "nf_locked" -> Section
          [] at = "nsf" -> Section \o (IF _find(m, l.server) >= 0 THEN Section ELSE <<>>)
          [] at \in {"cm_install", "csl_got", "q_slave", "q_master", "wr_do", "au_do"} -> Net
          [] OTHER -> <<>>

\* The events keep to the discipline: no "io" and no "acquire" while the
\* lock is held, and the lock is not held at the end.
RECURSIVE WellLocked(_, _)
WellLocked(events, held) ==
    IF events = <<>> THEN ~held
    ELSE LET e == Head(events)
         IN  /\ held => e = "release"
             /\ ~held => e # "release"
             /\ WellLocked(Tail(events), e = "acquire")

GetSlaveReturnsKnownNode ==
    [][\A t \in Threads :
          (pc[t] = "gs" /\ pc'[t] # pc[t]) =>
              /\ Size(This(t)) > 0
              /\ pc'[t] # "idle" =>
                    \E p \in 0..(Size(This(t)) - 1) : At(This(t), p).addr = loc'[t].retH]_vars

====
